---- MODULE Spec2Model ----
(***************************************************************************)
(* Model of the Sega constant-product adapter (okx/src/sega.rs) and of the *)
(* pool record helpers it uses (sega-cp-swap/src/pool.rs).                 *)
(*                                                                         *)
(* Machine words are scaled: every u64 of the program is a WordBits-bit    *)
(* unsigned word, every i64 a WordBits-bit two's-complement word, every    *)
(* u128 a 2*WordBits-bit word, and an f64 carries MantBits significant     *)
(* bits (fewer than a word, as 53 < 64).  The 8-bit pool status keeps its  *)
(* real width.  An f64 value x is represented by the integer 2*x, so that  *)
(* halves exist and the float-to-integer casts truncate.                   *)
(***************************************************************************)
EXTENDS Integers, Sequences, FiniteSets, TLC

WordBits == 3

RECURSIVE Pow2(_)
Pow2(n) == IF n = 0 THEN 1 ELSE 2 * Pow2(n - 1)

MantBits == WordBits - 1
U64Max == Pow2(WordBits) - 1
I64Max == Pow2(WordBits - 1) - 1
I64Min == 0 - Pow2(WordBits - 1)
U128Max == Pow2(2 * WordBits) - 1
U64 == 0 .. U64Max
I64 == I64Min .. I64Max
U8 == 0 .. 255

Min(a, b) == IF a <= b THEN a ELSE b
Max(a, b) == IF a >= b THEN a ELSE b

None == [some |-> FALSE]
Some(v) == [some |-> TRUE, val |-> v]
IsSome(o) == o.some
IsNone(o) == ~o.some

(* ---------------- integer and float conversions ---------------- *)

RECURSIVE BitLen(_)
BitLen(n) == IF n = 0 THEN 0 ELSE 1 + BitLen(n \div 2)

\* round a non-negative integer to MantBits significant bits, ties to even
RoundToMant(n) ==
    IF BitLen(n) <= MantBits THEN n
    ELSE LET sh   == BitLen(n) - MantBits
             q    == n \div Pow2(sh)
             r    == n % Pow2(sh)
             half == Pow2(sh - 1)
             up   == (r > half) \/ (r = half /\ q % 2 = 1)
         IN  (IF up THEN q + 1 ELSE q) * Pow2(sh)

\* `v as f64` for an unsigned integer v
U64ToF64(v) == 2 * RoundToMant(v)

\* truncation toward zero of an f64
F64Trunc(x) == IF x >= 0 THEN x \div 2 ELSE 0 - ((0 - x) \div 2)

\* `x as u64`, `x as i64`, `x as u128` for an f64 x: truncate, then saturate
F64ToU64(x) == Max(0, Min(F64Trunc(x), U64Max))
F64ToI64(x) == Max(I64Min, Min(F64Trunc(x), I64Max))
F64ToU128(x) == Max(0, Min(F64Trunc(x), U128Max))

\* `e as u64` for an i64 e: reinterpretation of the two's-complement word
I64ToU64(e) == e % Pow2(WordBits)

\* a + b on u64: overflow panics when the build checks overflow, wraps otherwise
U64Add(a, b, checks) ==
    IF a + b <= U64Max THEN [panic |-> FALSE, val |-> a + b]
    ELSE IF checks THEN [panic |-> TRUE, val |-> 0]
    ELSE [panic |-> FALSE, val |-> (a + b) % Pow2(WordBits)]

\* u64::checked_sub
CheckedSub(a, b) == IF a >= b THEN Some(a - b) ELSE None

\* u64::saturating_sub
SaturatingSub(a, b) == IF a >= b THEN a - b ELSE 0

RECURSIVE BitAnd(_, _)
BitAnd(a, b) ==
    IF a = 0 \/ b = 0 THEN 0
    ELSE (a % 2) * (b % 2) + 2 * BitAnd(a \div 2, b \div 2)

(* ---------------- pool record (sega-cp-swap/src/pool.rs) ---------------- *)

\* PoolStatusBitIndex as u8
BitDeposit == 0
BitWithdraw == 1
BitSwap == 2

\* faulty variant: the bit index is used as the mask
get_status_by_index(status, bit) == BitAnd(status, bit) = 0

\* PoolState::get_status_by_bit: TRUE when the bit is clear
get_status_by_bit(status, bit) == BitAnd(status, Pow2(bit) % 256) = 0

(* ---------------- addresses and ledger accounts ---------------- *)

Pools == {"p1", "p2"}
Mints == {"mA", "mB", "mC"}
Vaults == {"v1_0", "v1_1", "v2_0", "v2_1"}
Configs == {"cfg"}
Pubkeys == Pools \cup Mints \cup Vaults \cup Configs

\* Pubkey::from_str succeeds exactly on well-formed addresses
IsPubkey(s) == s \in Pubkeys
BadAddress == "not-base58"

\* an account slot of the ledger: absent, bytes that do not decode, or a record
Missing == [st |-> "missing"]
Garbage == [st |-> "garbage"]
Data(v) == [st |-> "ok", val |-> v]

\* the decoded PoolState of pool p (the fields the adapter reads)
PoolRecord(p, status, pf0, ff0, pf1, ff1, open_time) ==
    [ amm_config |-> "cfg",
      token_0_vault |-> IF p = "p1" THEN "v1_0" ELSE "v2_0",
      token_1_vault |-> IF p = "p1" THEN "v1_1" ELSE "v2_1",
      token_0_mint |-> IF p = "p1" THEN "mA" ELSE "mB",
      token_1_mint |-> IF p = "p1" THEN "mB" ELSE "mC",
      status |-> status,
      protocol_fees_token_0 |-> pf0,
      protocol_fees_token_1 |-> pf1,
      fund_fees_token_0 |-> ff0,
      fund_fees_token_1 |-> ff1,
      open_time |-> open_time ]

ConfigRecord(trade, protocol, fund) ==
    [trade_fee_rate |-> trade, protocol_fee_rate |-> protocol, fund_fee_rate |-> fund]

\* TransferFee {epoch, maximum_fee, transfer_fee_basis_points}
TransferFee(epoch, maximum_fee, bps) ==
    [epoch |-> epoch, maximum_fee |-> maximum_fee, transfer_fee_basis_points |-> bps]

\* a decoded mint with its optional TransferFeeConfig extension
MintRecord(decimals, ext) == [decimals |-> decimals, transfer_fee_config |-> ext]
PlainMint == MintRecord(6, None)
FeeMint(older, newer) ==
    MintRecord(9, Some([older_transfer_fee |-> older, newer_transfer_fee |-> newer]))

\* a decoded token account: AccountState is Initialized or Frozen
VaultRecord(amount, state) == [amount |-> amount, state |-> state]
is_frozen(vault) == vault.state = "Frozen"

(* ---------------- fetch_pool_metadata: the pure tail ---------------- *)

\* the outcome of a call, with the place where the call ended
Pending == [kind |-> "pending", at |-> ""]
RetNone(at) == [kind |-> "none", at |-> at]
RetSome(md) == [kind |-> "some", at |-> "end", md |-> md]
Panicked(at) == [kind |-> "panic", at |-> at]

\* faulty variant: the frozen flag is not consulted
VaultAmountAnyState(vault) == Some(vault.amount)

\* vault_0_amount / vault_1_amount: absent when the vault is frozen
VaultAmount(vault) == IF is_frozen(vault) THEN None ELSE Some(vault.amount)

\* faulty variant: an underflowing subtraction ends the call like a frozen vault
ReserveShortCircuit(vault, protocol_fees, fund_fees, checks) ==
    LET amount == VaultAmount(vault)
        fees   == U64Add(protocol_fees, fund_fees, checks)
    IN  IF IsNone(amount) THEN [kind |-> "return_none"]
        ELSE IF fees.panic THEN [kind |-> "panic"]
        ELSE IF IsNone(CheckedSub(amount.val, fees.val)) THEN [kind |-> "return_none"]
        ELSE [kind |-> "ok", reserve |-> CheckedSub(amount.val, fees.val)]

\* one side's reserve: `vault_amount.context(..).ok()?.checked_sub(protocol + fund)`.
\* A frozen vault returns None from the whole call before the sum is evaluated;
\* the sum is a plain u64 `+`.
Reserve(vault, protocol_fees, fund_fees, checks) ==
    LET amount == VaultAmount(vault)
        fees   == U64Add(protocol_fees, fund_fees, checks)
    IN  IF IsNone(amount) THEN [kind |-> "return_none"]
        ELSE IF fees.panic THEN [kind |-> "panic"]
        ELSE [kind |-> "ok", reserve |-> CheckedSub(amount.val, fees.val)]

\* Option<u64>::map(|v| v as f64)
MapF64(o) == IF IsSome(o) THEN Some(U64ToF64(o.val)) ELSE None

\* the `extra` map of the metadata; a key holds Some(value)
Extra(pool_state, amm_config) ==
    [ is_trading |-> Some(get_status_by_bit(pool_state.status, BitSwap)),
      open_time |-> Some(U64ToF64(pool_state.open_time)),
      trade_fee_rate |-> Some(U64ToF64(amm_config.trade_fee_rate)),
      protocol_fee_rate |-> Some(U64ToF64(amm_config.protocol_fee_rate)),
      fund_fee_rate |-> Some(U64ToF64(amm_config.fund_fee_rate)) ]

PoolMetadata(pool_address, pool_state, amm_config, base_reserve, quote_reserve) ==
    [ extra |-> Extra(pool_state, amm_config),
      base_reserve |-> MapF64(base_reserve),
      quote_reserve |-> MapF64(quote_reserve),
      pool_address |-> pool_address,
      base_mint |-> pool_state.token_0_mint,
      quote_mint |-> pool_state.token_1_mint ]

\* everything after the last ledger read
Assemble(pool_address, pool_state, amm_config, vault_0, vault_1, checks) ==
    LET r0 == Reserve(vault_0, pool_state.protocol_fees_token_0,
                      pool_state.fund_fees_token_0, checks)
        r1 == Reserve(vault_1, pool_state.protocol_fees_token_1,
                      pool_state.fund_fees_token_1, checks)
    IN  IF r0.kind = "return_none" THEN RetNone("vault_0_frozen")
        ELSE IF r0.kind = "panic" THEN Panicked("fee_sum_0")
        ELSE IF r1.kind = "return_none" THEN RetNone("vault_1_frozen")
        ELSE IF r1.kind = "panic" THEN Panicked("fee_sum_1")
        ELSE RetSome(PoolMetadata(pool_address, pool_state, amm_config,
                                  r0.reserve, r1.reserve))

\* HashMap::insert: the whole value under the key is replaced
MapInsert(map, key, value) ==
    [k \in DOMAIN map \cup {key} |-> IF k = key THEN value ELSE map[k]]

\* faulty variant: the pool cache keeps the latest pool only
PoolMapInsertEvicting(map, key, pool_state) == MapInsert([k \in {} |-> None], key, pool_state)

\* POOL_ADDRESS_MAP.lock().unwrap().insert(pool address, pool_state)
PoolMapInsert(map, key, pool_state) == MapInsert(map, key, pool_state)

\* faulty variant: the insert rebuilds the map around the new entry, evicting the rest
MintMapInsertEvicting(map, key, mint) == [k \in {key} |-> mint]

\* faulty variant: an existing entry is updated field by field and keeps its old extension
MintMapInsertPartial(map, key, mint) ==
    MapInsert(map, key,
              IF key \in DOMAIN map
              THEN [mint EXCEPT !.transfer_fee_config = map[key].transfer_fee_config]
              ELSE mint)

\* TOKEN_MINT_MAP.lock().unwrap().insert(mint address, mint)
MintMapInsert(map, key, mint) == MapInsert(map, key, mint)

(* ---------------- Mutex ---------------- *)

NoHolder == "none"
FreeMutex == [holder |-> NoHolder, poisoned |-> FALSE]

\* lock() blocks while another caller holds the guard
CanLock(mutex) == mutex.holder = NoHolder

\* lock().unwrap(): the guard is taken unless the mutex is poisoned
Locked(mutex, who) == IF mutex.poisoned THEN mutex ELSE [mutex EXCEPT !.holder = who]

\* faulty variant: the guard outlives the statement
UnlockedLate(mutex) == mutex

\* the guard dropped at the end of its scope
Unlocked(mutex) == [mutex EXCEPT !.holder = NoHolder]

\* faulty variant: a panic drops the guard like a normal exit (a non-poisoning mutex)
UnlockedByPanicClean(mutex) == [mutex EXCEPT !.holder = NoHolder]

\* the guard dropped by a panic unwinding through its scope
UnlockedByPanic(mutex) == [holder |-> NoHolder, poisoned |-> TRUE]

(* ---------------- state ---------------- *)

Fetchers == {"f1", "f2"}
Quoters == {"q1"}

VARIABLES
    ledger,            \* the remote ledger: account slots by kind and address
    overflow_checks,   \* the build: TRUE when integer overflow panics, FALSE when it wraps
    POOL_ADDRESS_MAP,  \* pool address -> PoolState
    TOKEN_MINT_MAP,    \* mint address -> mint record
    pool_mutex,        \* the Mutex around POOL_ADDRESS_MAP
    mint_mutex,        \* the Mutex around TOKEN_MINT_MAP
    fetch,             \* each fetch_pool_metadata caller: position, locals, outcome
    quote,             \* each quote caller: position, locals, outcome
    addresses,         \* the fetch_pool_addresses caller: its outcome
    listener,          \* the listen_new_pool_addresses caller: its outcome
    returned,          \* history: every PoolMetadata a fetch_pool_metadata call returned
    written            \* history: every (key, record) a fetch_pool_metadata call decoded and inserted

vars == <<ledger, overflow_checks, POOL_ADDRESS_MAP, TOKEN_MINT_MAP, pool_mutex,
          mint_mutex, fetch, quote, addresses, listener, returned, written>>

EmptyMap == [k \in {} |-> None]

FetchIdle ==
    [ pc |-> "idle", pool_address |-> "", pool_state |-> None, amm_config |-> None,
      token_0_mint |-> None, token_1_mint |-> None,
      token_0_vault |-> None, token_1_vault |-> None, result |-> Pending ]

\* the call has ended: its locals are dropped (the argument is kept for reference)
FetchEnd(me, res) ==
    [FetchIdle EXCEPT !.pc = "done", !.pool_address = me.pool_address, !.result = res]

(* ---------------- fetch_pool_metadata, step by step ---------------- *)

\* `client.get_account_with_commitment(..).ok()?.value` followed by the decode:
\* a transport error and an absent account return None from the call;
\* bytes that do not decode panic (unwrap) or return None (.ok()?)
ReadAccount(slot, rpc_ok, decode_unwraps) ==
    IF ~rpc_ok THEN [kind |-> "return_none"]
    ELSE IF slot.st = "missing" THEN [kind |-> "return_none"]
    ELSE IF slot.st = "garbage"
         THEN (IF decode_unwraps THEN [kind |-> "panic"] ELSE [kind |-> "return_none"])
    ELSE [kind |-> "ok", val |-> slot.val]

\* PoolState::try_deserialize(..).unwrap() and AmmConfig::try_deserialize(..).unwrap()
PoolDecodeUnwraps == TRUE
ConfigDecodeUnwraps == TRUE
\* StateWithExtensionsOwned::unpack(..).ok()?
MintDecodeUnwraps == FALSE
VaultDecodeUnwraps == FALSE

FetchFrame == UNCHANGED <<ledger, overflow_checks, quote, addresses, listener>>

\* entry: Pubkey::from_str(pool_address).unwrap(); a caller is one call
FetchCall(f, pool_address) ==
    /\ fetch[f].pc = "idle"
    /\ fetch' = [fetch EXCEPT ![f] =
                   IF IsPubkey(pool_address)
                   THEN [FetchIdle EXCEPT !.pc = "get_pool", !.pool_address = pool_address]
                   ELSE [FetchIdle EXCEPT !.pc = "done", !.pool_address = pool_address,
                                          !.result = Panicked("Pubkey::from_str")]]
    /\ FetchFrame
    /\ UNCHANGED <<POOL_ADDRESS_MAP, TOKEN_MINT_MAP, pool_mutex, mint_mutex, returned, written>>

\* a ledger read of the call: on success the decoded record is stored in a local
\* and the call moves on; otherwise it ends
FetchRead(f, at, slot, rpc_ok, decode_unwraps, local, next) ==
    /\ fetch[f].pc = at
    /\ LET r == ReadAccount(slot, rpc_ok, decode_unwraps)
       IN  fetch' = [fetch EXCEPT ![f] =
                       IF r.kind = "return_none" THEN FetchEnd(@, RetNone(at))
                       ELSE IF r.kind = "panic" THEN FetchEnd(@, Panicked(at))
                       ELSE [@ EXCEPT !.pc = next, ![local] = Some(r.val)]]
    /\ FetchFrame
    /\ UNCHANGED <<POOL_ADDRESS_MAP, TOKEN_MINT_MAP, pool_mutex, mint_mutex, returned, written>>

FetchGetPool(f, rpc_ok) ==
    /\ fetch[f].pc = "get_pool"
    /\ FetchRead(f, "get_pool", ledger.pool[fetch[f].pool_address], rpc_ok,
                 PoolDecodeUnwraps, "pool_state", "lock_pool_map")

\* POOL_ADDRESS_MAP.lock().unwrap()
FetchLockPoolMap(f) ==
    /\ fetch[f].pc = "lock_pool_map"
    /\ CanLock(pool_mutex)
    /\ pool_mutex' = Locked(pool_mutex, f)
    /\ fetch' = [fetch EXCEPT ![f] =
                   IF pool_mutex.poisoned THEN FetchEnd(@, Panicked("lock_pool_map"))
                   ELSE [@ EXCEPT !.pc = "insert_pool"]]
    /\ FetchFrame
    /\ UNCHANGED <<POOL_ADDRESS_MAP, TOKEN_MINT_MAP, mint_mutex, returned, written>>

\* faulty variant: a cached pool record is reused instead of the one just read
FetchInsertPoolCoalescing(f) ==
    /\ fetch[f].pc = "insert_pool"
    /\ pool_mutex.holder = f
    /\ POOL_ADDRESS_MAP' =
          IF fetch[f].pool_address \in DOMAIN POOL_ADDRESS_MAP THEN POOL_ADDRESS_MAP
          ELSE MapInsert(POOL_ADDRESS_MAP, fetch[f].pool_address, fetch[f].pool_state.val)
    /\ pool_mutex' = Unlocked(pool_mutex)
    /\ fetch' = [fetch EXCEPT ![f] =
                   [@ EXCEPT !.pc = "get_config",
                             !.pool_state = Some(POOL_ADDRESS_MAP'[fetch[f].pool_address])]]
    /\ FetchFrame
    /\ UNCHANGED <<TOKEN_MINT_MAP, mint_mutex, returned, written>>

\* faulty variant: the pool record is not cached before the fee-config is fetched
FetchInsertPoolLater(f) ==
    /\ fetch[f].pc = "insert_pool"
    /\ pool_mutex.holder = f
    /\ pool_mutex' = Unlocked(pool_mutex)
    /\ fetch' = [fetch EXCEPT ![f].pc = "get_config"]
    /\ FetchFrame
    /\ UNCHANGED <<POOL_ADDRESS_MAP, TOKEN_MINT_MAP, mint_mutex, returned, written>>

\* .insert(pool_address.to_string(), pool_state.clone()); the guard drops
FetchInsertPool(f) ==
    /\ fetch[f].pc = "insert_pool"
    /\ pool_mutex.holder = f
    /\ POOL_ADDRESS_MAP' = PoolMapInsert(POOL_ADDRESS_MAP, fetch[f].pool_address,
                                         fetch[f].pool_state.val)
    /\ pool_mutex' = Unlocked(pool_mutex)
    /\ fetch' = [fetch EXCEPT ![f].pc = "get_config"]
    /\ FetchFrame
    /\ UNCHANGED <<TOKEN_MINT_MAP, mint_mutex, returned, written>>

FetchGetConfig(f, rpc_ok) ==
    /\ fetch[f].pc = "get_config"
    /\ FetchRead(f, "get_config", ledger.config[fetch[f].pool_state.val.amm_config],
                 rpc_ok, ConfigDecodeUnwraps, "amm_config", "get_mint_0")

FetchGetMint0(f, rpc_ok) ==
    /\ fetch[f].pc = "get_mint_0"
    /\ FetchRead(f, "get_mint_0", ledger.mint[fetch[f].pool_state.val.token_0_mint],
                 rpc_ok, MintDecodeUnwraps, "token_0_mint", "get_mint_1")

FetchGetMint1(f, rpc_ok) ==
    /\ fetch[f].pc = "get_mint_1"
    /\ FetchRead(f, "get_mint_1", ledger.mint[fetch[f].pool_state.val.token_1_mint],
                 rpc_ok, MintDecodeUnwraps, "token_1_mint", "lock_mint_0")

\* TOKEN_MINT_MAP.lock().unwrap(), before either insert
FetchLockMintMap(f, at, next) ==
    /\ fetch[f].pc = at
    /\ CanLock(mint_mutex)
    /\ mint_mutex' = Locked(mint_mutex, f)
    /\ fetch' = [fetch EXCEPT ![f] =
                   IF mint_mutex.poisoned THEN FetchEnd(@, Panicked(at))
                   ELSE [@ EXCEPT !.pc = next]]
    /\ FetchFrame
    /\ UNCHANGED <<POOL_ADDRESS_MAP, TOKEN_MINT_MAP, pool_mutex, returned, written>>

\* .insert(mint address, mint record); the guard drops
FetchInsertMint(f, at, key, value, next) ==
    /\ fetch[f].pc = at
    /\ mint_mutex.holder = f
    /\ TOKEN_MINT_MAP' = MintMapInsert(TOKEN_MINT_MAP, key, value)
    /\ written' = written \cup {<<key, value>>}
    /\ mint_mutex' = Unlocked(mint_mutex)
    /\ fetch' = [fetch EXCEPT ![f].pc = next]
    /\ FetchFrame
    /\ UNCHANGED <<POOL_ADDRESS_MAP, pool_mutex, returned>>

FetchLockMint0(f) ==
    /\ fetch[f].pc = "lock_mint_0"
    /\ FetchLockMintMap(f, "lock_mint_0", "insert_mint_0")

FetchInsertMint0(f) ==
    /\ fetch[f].pc = "insert_mint_0"
    /\ FetchInsertMint(f, "insert_mint_0", fetch[f].pool_state.val.token_0_mint,
                       fetch[f].token_0_mint.val, "lock_mint_1")

FetchLockMint1(f) ==
    /\ fetch[f].pc = "lock_mint_1"
    /\ FetchLockMintMap(f, "lock_mint_1", "insert_mint_1")

FetchInsertMint1(f) ==
    /\ fetch[f].pc = "insert_mint_1"
    /\ FetchInsertMint(f, "insert_mint_1", fetch[f].pool_state.val.token_1_mint,
                       fetch[f].token_1_mint.val, "get_vault_0")

FetchGetVault0(f, rpc_ok) ==
    /\ fetch[f].pc = "get_vault_0"
    /\ FetchRead(f, "get_vault_0", ledger.vault[fetch[f].pool_state.val.token_0_vault],
                 rpc_ok, VaultDecodeUnwraps, "token_0_vault", "get_vault_1")

FetchGetVault1(f, rpc_ok) ==
    /\ fetch[f].pc = "get_vault_1"
    /\ FetchRead(f, "get_vault_1", ledger.vault[fetch[f].pool_state.val.token_1_vault],
                 rpc_ok, VaultDecodeUnwraps, "token_1_vault", "assemble")

\* after the last read: frozen checks, reserves, the metadata value
FetchAssemble(f) ==
    /\ fetch[f].pc = "assemble"
    /\ LET res == Assemble(fetch[f].pool_address, fetch[f].pool_state.val,
                           fetch[f].amm_config.val, fetch[f].token_0_vault.val,
                           fetch[f].token_1_vault.val, overflow_checks)
       IN  /\ fetch' = [fetch EXCEPT ![f] = FetchEnd(@, res)]
           /\ returned' = IF res.kind = "some" THEN returned \cup {res.md} ELSE returned
    /\ FetchFrame
    /\ UNCHANGED <<POOL_ADDRESS_MAP, TOKEN_MINT_MAP, pool_mutex, mint_mutex, written>>

(* ---------------- quote: the pure parts ---------------- *)

\* get_extra!(metadata, key, variant): the value under the key, if any
GetExtra(metadata, key) == metadata.extra[key]

UnwrapOr(o, default) == IF IsSome(o) THEN o.val ELSE default

MaxFeeBasisPoints == 10000
FeeRateDenominator == 4

CeilDiv(a, b) == (a + b - 1) \div b

\* TransferFeeConfig::calculate_epoch_fee: the newer parameters from their epoch on,
\* ceil(amount * bps / 10000) capped at the maximum; None when it does not fit a u64
calculate_epoch_fee(config, epoch, pre_fee_amount) ==
    LET fee == IF epoch >= config.newer_transfer_fee.epoch
               THEN config.newer_transfer_fee ELSE config.older_transfer_fee
        bps == fee.transfer_fee_basis_points
        raw == CeilDiv(pre_fee_amount * bps, MaxFeeBasisPoints)
    IN  IF bps = 0 \/ pre_fee_amount = 0 THEN Some(0)
        ELSE IF raw > U64Max THEN None
        ELSE Some(Min(raw, fee.maximum_fee))

\* faulty variant: the extension is looked at but the fee is not charged
TransferFeeOfNothing(mint, epoch, amount) == 0

\* the block computing a leg's transfer fee from the cached mint
TransferFeeOf(mint, epoch, amount) ==
    IF IsSome(mint.transfer_fee_config)
    THEN UnwrapOr(calculate_epoch_fee(mint.transfer_fee_config.val, I64ToU64(epoch), amount), 0)
    ELSE 0

\* CurveCalculator::swap_base_input on u128: the trade fee (rounded up) leaves the
\* input before the curve; protocol and fund fees are cut from the trade fee
swap_base_input(source, reserve_in, reserve_out, trade_rate, protocol_rate, fund_rate) ==
    LET trade_fee == CeilDiv(source * trade_rate, FeeRateDenominator)
        protocol  == (trade_fee * protocol_rate) \div FeeRateDenominator
        fund      == (trade_fee * fund_rate) \div FeeRateDenominator
        less_fees == source - trade_fee
        out       == (less_fees * reserve_out) \div (reserve_in + less_fees)
    IN  IF reserve_in = 0 \/ reserve_out = 0 THEN None
        ELSE IF source * trade_rate > U128Max \/ trade_fee > source THEN None
        ELSE IF trade_fee * protocol_rate > U128Max \/ trade_fee * fund_rate > U128Max THEN None
        ELSE IF less_fees * reserve_out > U128Max \/ reserve_in + less_fees > U128Max THEN None
        ELSE IF out <= 0 THEN None
        ELSE Some([ destination_amount_swapped |-> out, trade_fee |-> trade_fee,
                    protocol_fee |-> protocol, fund_fee |-> fund ])

\* faulty variant: only a negative amount returns at once
QuoteGuardsNegativeOnly(amount_in, metadata, clock) ==
    LET is_trading == UnwrapOr(GetExtra(metadata, "is_trading"), FALSE)
        epoch      == clock.unix_timestamp
        open_time  == F64ToI64(UnwrapOr(GetExtra(metadata, "open_time"), 0))
    IN  IF amount_in < 0 THEN "return_0_unread"
        ELSE IF ~clock.ok THEN "panic"
        ELSE IF ~is_trading \/ epoch < open_time THEN "return_0"
        ELSE "go"

\* the guards at the head of quote: the amount check, then Clock::get().unwrap(),
\* then the trading flag and the open time
QuoteGuards(amount_in, metadata, clock) ==
    LET is_trading == UnwrapOr(GetExtra(metadata, "is_trading"), FALSE)
        epoch      == clock.unix_timestamp
        open_time  == F64ToI64(UnwrapOr(GetExtra(metadata, "open_time"), 0))
    IN  IF amount_in <= 0 THEN "return_0_unread"
        ELSE IF ~clock.ok THEN "panic"
        ELSE IF ~is_trading \/ epoch < open_time THEN "return_0"
        ELSE "go"

\* faulty variant: neither a zero net input nor a curve failure ends the call
QuoteCurveGoesOn(amount_in, metadata, token_0_transfer_fee) ==
    LET actual_amount_in == SaturatingSub(F64ToU64(amount_in), token_0_transfer_fee)
        swap_result == swap_base_input(actual_amount_in,
                           F64ToU128(UnwrapOr(metadata.base_reserve, 0)),
                           F64ToU128(UnwrapOr(metadata.quote_reserve, 0)),
                           F64ToU64(UnwrapOr(GetExtra(metadata, "trade_fee_rate"), 0)),
                           F64ToU64(UnwrapOr(GetExtra(metadata, "protocol_fee_rate"), 0)),
                           F64ToU64(UnwrapOr(GetExtra(metadata, "fund_fee_rate"), 0)))
    IN  IF IsNone(swap_result) THEN [kind |-> "out", amount_out |-> 0]
        ELSE [kind |-> "out",
              amount_out |-> swap_result.val.destination_amount_swapped % Pow2(WordBits)]

\* from the input-leg fee to the curve result: "return_0" or the curve's output as u64
QuoteCurve(amount_in, metadata, token_0_transfer_fee) ==
    LET actual_amount_in == SaturatingSub(F64ToU64(amount_in), token_0_transfer_fee)
        trade_fee_rate    == F64ToU64(UnwrapOr(GetExtra(metadata, "trade_fee_rate"), 0))
        protocol_fee_rate == F64ToU64(UnwrapOr(GetExtra(metadata, "protocol_fee_rate"), 0))
        fund_fee_rate     == F64ToU64(UnwrapOr(GetExtra(metadata, "fund_fee_rate"), 0))
        total_token_0_amount == F64ToU128(UnwrapOr(metadata.base_reserve, 0))
        total_token_1_amount == F64ToU128(UnwrapOr(metadata.quote_reserve, 0))
        swap_result == swap_base_input(actual_amount_in, total_token_0_amount,
                                       total_token_1_amount, trade_fee_rate,
                                       protocol_fee_rate, fund_fee_rate)
    IN  IF actual_amount_in = 0 THEN [kind |-> "return_0"]
        ELSE IF IsNone(swap_result) THEN [kind |-> "return_0"]
        ELSE [kind |-> "out",
              amount_out |-> swap_result.val.destination_amount_swapped % Pow2(WordBits)]

(* ---------------- quote, step by step ---------------- *)

NoExtra ==
    [ is_trading |-> None, open_time |-> None, trade_fee_rate |-> None,
      protocol_fee_rate |-> None, fund_fee_rate |-> None ]

NoMetadata ==
    [ extra |-> NoExtra, base_reserve |-> None, quote_reserve |-> None,
      pool_address |-> "", base_mint |-> "", quote_mint |-> "" ]

\* a reading of Clock::get(): Err, or Ok with the unix timestamp and the ledger epoch
ClockErr == [ok |-> FALSE, unix_timestamp |-> 0, epoch |-> 0]
ClockOk(t, e) == [ok |-> TRUE, unix_timestamp |-> t, epoch |-> e]

Value(v) == [kind |-> "value", val |-> v]

QuoteIdle ==
    [ pc |-> "idle", amount_in |-> 0, metadata |-> NoMetadata,
      clock |-> ClockErr, clock_read |-> FALSE,
      mint_0 |-> None, mint_1 |-> None, token_0_transfer_fee |-> 0, amount_out |-> 0,
      result |-> Pending ]

QuoteFrame == UNCHANGED <<ledger, overflow_checks, POOL_ADDRESS_MAP, TOKEN_MINT_MAP,
                          pool_mutex, fetch, addresses, listener, returned, written>>

\* entry and the early returns; the clock reading is kept once it was taken
QuoteCall(q, amount_in, metadata, clock) ==
    /\ quote[q].pc = "idle"
    /\ LET g    == QuoteGuards(amount_in, metadata, clock)
           call == [QuoteIdle EXCEPT !.amount_in = amount_in, !.metadata = metadata]
           read == [call EXCEPT !.clock = clock, !.clock_read = TRUE]
       IN  quote' = [quote EXCEPT ![q] =
                       CASE g = "return_0_unread" ->
                                [call EXCEPT !.pc = "done", !.result = Value(0)]
                         [] g = "panic" ->
                                [read EXCEPT !.pc = "done", !.result = Panicked("Clock::get")]
                         [] g = "return_0" ->
                                [read EXCEPT !.pc = "done", !.result = Value(0)]
                         [] OTHER -> [read EXCEPT !.pc = "lock_fee_0"]]
    /\ mint_mutex' = mint_mutex
    /\ QuoteFrame

\* TOKEN_MINT_MAP.lock().unwrap() of either fee block
QuoteLock(q, at, next) ==
    /\ quote[q].pc = at
    /\ CanLock(mint_mutex)
    /\ mint_mutex' = Locked(mint_mutex, q)
    /\ quote' = [quote EXCEPT ![q] =
                   IF mint_mutex.poisoned
                   THEN [@ EXCEPT !.pc = "done", !.result = Panicked(at)]
                   ELSE [@ EXCEPT !.pc = next]]
    /\ QuoteFrame

QuoteLockFee0(q) ==
    /\ quote[q].pc = "lock_fee_0"
    /\ QuoteLock(q, "lock_fee_0", "fee_0")

\* token_mint_map.get(&metadata.base_mint).unwrap() and the input-leg fee, under the
\* guard; then, the guard dropped, the curve
QuoteFee0(q) ==
    /\ quote[q].pc = "fee_0"
    /\ mint_mutex.holder = q
    /\ LET me  == quote[q]
           key == me.metadata.base_mint
       IN  IF key \notin DOMAIN TOKEN_MINT_MAP
           THEN /\ mint_mutex' = UnlockedByPanic(mint_mutex)
                /\ quote' = [quote EXCEPT ![q] =
                               [@ EXCEPT !.pc = "done", !.result = Panicked("fee_0")]]
           ELSE LET mint == TOKEN_MINT_MAP[key]
                    fee  == TransferFeeOf(mint, me.clock.unix_timestamp,
                                          F64ToU64(me.amount_in))
                    c    == QuoteCurve(me.amount_in, me.metadata, fee)
                IN  /\ mint_mutex' = Unlocked(mint_mutex)
                    /\ quote' = [quote EXCEPT ![q] =
                         IF c.kind = "return_0"
                         THEN [@ EXCEPT !.pc = "done", !.mint_0 = Some(mint),
                                        !.token_0_transfer_fee = fee,
                                        !.result = Value(0)]
                         ELSE [@ EXCEPT !.pc = "lock_fee_1", !.mint_0 = Some(mint),
                                        !.token_0_transfer_fee = fee,
                                        !.amount_out = c.amount_out]]
    /\ QuoteFrame

QuoteLockFee1(q) ==
    /\ quote[q].pc = "lock_fee_1"
    /\ QuoteLock(q, "lock_fee_1", "fee_1")

\* faulty variant: the output mint is fetched from the ledger and the cache refreshed
QuoteFee1Refreshing(q) ==
    /\ quote[q].pc = "fee_1"
    /\ mint_mutex.holder = q
    /\ LET me   == quote[q]
           key  == me.metadata.quote_mint
           slot == IF key \in DOMAIN ledger.mint THEN ledger.mint[key] ELSE Missing
       IN  IF slot.st # "ok"
           THEN /\ mint_mutex' = UnlockedByPanic(mint_mutex)
                /\ TOKEN_MINT_MAP' = TOKEN_MINT_MAP
                /\ quote' = [quote EXCEPT ![q] =
                               [@ EXCEPT !.pc = "done", !.result = Panicked("fee_1")]]
           ELSE LET fee == TransferFeeOf(slot.val, me.clock.unix_timestamp, me.amount_out)
                IN  /\ mint_mutex' = Unlocked(mint_mutex)
                    /\ TOKEN_MINT_MAP' = MapInsert(TOKEN_MINT_MAP, key, slot.val)
                    /\ quote' = [quote EXCEPT ![q] =
                         [@ EXCEPT !.pc = "done", !.mint_1 = Some(slot.val),
                                   !.result = Value(U64ToF64(SaturatingSub(me.amount_out, fee)))]]
    /\ UNCHANGED <<ledger, overflow_checks, POOL_ADDRESS_MAP, pool_mutex, fetch,
                   addresses, listener, returned, written>>

\* token_mint_map.get(&metadata.quote_mint).unwrap(), the output-leg fee, the result
QuoteFee1(q) ==
    /\ quote[q].pc = "fee_1"
    /\ mint_mutex.holder = q
    /\ LET me  == quote[q]
           key == me.metadata.quote_mint
       IN  IF key \notin DOMAIN TOKEN_MINT_MAP
           THEN /\ mint_mutex' = UnlockedByPanic(mint_mutex)
                /\ quote' = [quote EXCEPT ![q] =
                               [@ EXCEPT !.pc = "done", !.result = Panicked("fee_1")]]
           ELSE LET mint == TOKEN_MINT_MAP[key]
                    fee  == TransferFeeOf(mint, me.clock.unix_timestamp, me.amount_out)
                    actual_amount_out == SaturatingSub(me.amount_out, fee)
                IN  /\ mint_mutex' = Unlocked(mint_mutex)
                    /\ quote' = [quote EXCEPT ![q] =
                         [@ EXCEPT !.pc = "done", !.mint_1 = Some(mint),
                                   !.result = Value(U64ToF64(actual_amount_out))]]
    /\ QuoteFrame

\* the caller is free for its next call
QuoteReturn(q) ==
    /\ quote[q].pc = "done"
    /\ quote' = [quote EXCEPT ![q] = QuoteIdle]
    /\ mint_mutex' = mint_mutex
    /\ QuoteFrame

(* ---------------- fetch_pool_addresses and listen_new_pool_addresses ---------------- *)

\* PoolState::LEN, and the data length of a fee-config account
PoolStateLEN == 8 + 10 * 32 + 1 * 5 + 8 * 7 + 8 * 31
AmmConfigLEN == 236

\* the accounts of the program in the order a scan yields them
ScanOrder == << [kind |-> "pool", address |-> "p2"], [kind |-> "config", address |-> "cfg"],
                [kind |-> "pool", address |-> "p1"] >>

\* data length of an account: a pool account that does not decode still has a
\* pool's length (its bytes are wrong, not its size)
DataLen(kind) == IF kind = "pool" THEN PoolStateLEN ELSE AmmConfigLEN

RECURSIVE SelectLen(_, _, _)
SelectLen(l, order, data_size) ==
    IF order = << >> THEN << >>
    ELSE LET a    == Head(order)
             slot == IF a.kind = "pool" THEN l.pool[a.address] ELSE l.config[a.address]
             rest == SelectLen(l, Tail(order), data_size)
         IN  IF slot.st # "missing" /\ DataLen(a.kind) = data_size
             THEN << a.address >> \o rest ELSE rest

\* client.get_program_accounts_with_config with the DataSize filter: the program's
\* existing accounts of that data length, in scan order; Err on a transport failure
get_program_accounts(l, data_size, rpc_ok) ==
    IF rpc_ok THEN [ok |-> TRUE, accs |-> SelectLen(l, ScanOrder, data_size)]
    ELSE [ok |-> FALSE, accs |-> << >>]

\* faulty variant: the scan is not filtered on the pool length
fetch_pool_addresses_unfiltered(l, rpc_ok) ==
    LET accounts == get_program_accounts(l, AmmConfigLEN, rpc_ok)
    IN  IF ~accounts.ok THEN << >> ELSE accounts.accs

\* fetch_pool_addresses: Vec::new() on Err, else the address of every account
fetch_pool_addresses(l, rpc_ok) ==
    LET accounts == get_program_accounts(l, PoolStateLEN, rpc_ok)
    IN  IF ~accounts.ok THEN << >>
        ELSE [i \in 1..Len(accounts.accs) |-> accounts.accs[i]]

\* the returned Vec<String>, with the branch it came from
Addresses(v, at) == [kind |-> "addresses", at |-> at, val |-> v]
Listened == [kind |-> "ok", at |-> "end"]

HostFrame == UNCHANGED <<ledger, overflow_checks, POOL_ADDRESS_MAP, TOKEN_MINT_MAP,
                         pool_mutex, mint_mutex, fetch, quote, returned, written>>

FetchPoolAddresses(rpc_ok) ==
    /\ addresses = Pending
    /\ addresses' = Addresses(fetch_pool_addresses(ledger, rpc_ok),
                              IF rpc_ok THEN "scan_ok" ELSE "scan_err")
    /\ listener' = listener
    /\ HostFrame

\* listen_new_pool_addresses: the body is commented out, the call returns Ok(())
ListenNewPoolAddresses ==
    /\ listener = Pending
    /\ listener' = Listened
    /\ addresses' = addresses
    /\ HostFrame

(* ---------------- the ledger ---------------- *)

\* two versions of a mint account: without and with a transfer-fee extension
MintV1 == PlainMint
MintV2 == FeeMint(TransferFee(0, 2, 5000), TransferFee(1, 1, 10000))
MintVersions == {MintV1, MintV2}

BasePool(p) == PoolRecord(p, 0, 1, 0, 0, 1, 1)
BaseConfig == ConfigRecord(1, 1, 0)
BaseVault == VaultRecord(5, "Initialized")

BaseLedger ==
    [ pool   |-> [p \in Pools |-> Data(BasePool(p))],
      config |-> [c \in Configs |-> Data(BaseConfig)],
      mint   |-> [m \in Mints |-> Data(MintV1)],
      vault  |-> [v \in Vaults |-> Data(BaseVault)] ]

\* the ledger with the six accounts of pool p1 as given
LedgerOfP1(pool, config, mint_0, mint_1, vault_0, vault_1) ==
    [ pool   |-> [BaseLedger.pool EXCEPT !["p1"] = pool],
      config |-> [BaseLedger.config EXCEPT !["cfg"] = config],
      mint   |-> [BaseLedger.mint EXCEPT !["mA"] = mint_0, !["mB"] = mint_1],
      vault  |-> [BaseLedger.vault EXCEPT !["v1_0"] = vault_0, !["v1_1"] = vault_1] ]

\* the ledger changes under the adapter: a mint account is rewritten
LedgerUpdate(m, record) ==
    /\ ledger.mint[m] # Data(record)
    /\ ledger' = [ledger EXCEPT !.mint[m] = Data(record)]
    /\ UNCHANGED <<overflow_checks, POOL_ADDRESS_MAP, TOKEN_MINT_MAP, pool_mutex,
                   mint_mutex, fetch, quote, addresses, listener, returned, written>>

(* ---------------- the concurrent specification ---------------- *)

\* metadata not produced by fetch_pool_metadata: its mints are never cached
ForeignMetadata ==
    [ extra |-> [NoExtra EXCEPT !.is_trading = Some(TRUE)],
      base_reserve |-> Some(4), quote_reserve |-> Some(4),
      pool_address |-> "p9", base_mint |-> "mX", quote_mint |-> "mY" ]

\* the mint accounts rewritten on the ledger while the adapter runs
ChangingMints == {"mB"}

CallAddresses == Pools \cup {BadAddress}
CallAmounts == {0, 6}
CallClocks == {ClockErr, ClockOk(1, 1)}

Init ==
    /\ ledger = BaseLedger
    /\ overflow_checks = FALSE   \* no fee sum of BaseLedger overflows: the build makes no difference here
    /\ POOL_ADDRESS_MAP = EmptyMap
    /\ TOKEN_MINT_MAP = EmptyMap
    /\ pool_mutex = FreeMutex
    /\ mint_mutex = FreeMutex
    /\ fetch = [f \in Fetchers |-> FetchIdle]
    /\ quote = [q \in Quoters |-> QuoteIdle]
    /\ addresses = Pending
    /\ listener = Pending
    /\ returned = {}
    /\ written = {}

FetchStep(f) ==
    \/ \E rpc_ok \in BOOLEAN :
         \/ FetchGetPool(f, rpc_ok)
         \/ FetchGetConfig(f, rpc_ok)
         \/ FetchGetMint0(f, rpc_ok)
         \/ FetchGetMint1(f, rpc_ok)
         \/ FetchGetVault0(f, rpc_ok)
         \/ FetchGetVault1(f, rpc_ok)
    \/ FetchLockPoolMap(f)
    \/ FetchInsertPool(f)
    \/ FetchLockMint0(f)
    \/ FetchInsertMint0(f)
    \/ FetchLockMint1(f)
    \/ FetchInsertMint1(f)
    \/ FetchAssemble(f)

QuoteStep(q) ==
    \/ QuoteLockFee0(q)
    \/ QuoteFee0(q)
    \/ QuoteLockFee1(q)
    \/ QuoteFee1(q)

Next ==
    \/ \E f \in Fetchers, a \in CallAddresses : FetchCall(f, a)
    \/ \E f \in Fetchers : FetchStep(f)
    \/ \E q \in Quoters, amount_in \in CallAmounts, clock \in CallClocks,
          metadata \in returned \cup {ForeignMetadata} :
            QuoteCall(q, amount_in, metadata, clock)
    \/ \E q \in Quoters : QuoteStep(q)
    \/ \E q \in Quoters : QuoteReturn(q)
    \/ \E m \in ChangingMints, record \in MintVersions : LedgerUpdate(m, record)

Spec == Init /\ [][Next]_vars

(* ---------------- one fetch_pool_metadata call over many ledgers ---------------- *)

SlotKinds(record) == {Missing, Garbage, Data(record)}

\* every combination of absent / undecodable / well-formed for the six accounts
KindLedgers ==
    { LedgerOfP1(pool, config, mint_0, mint_1, vault_0, vault_1) :
        pool \in SlotKinds(BasePool("p1")), config \in SlotKinds(BaseConfig),
        mint_0 \in SlotKinds(MintV1), mint_1 \in SlotKinds(MintV2),
        vault_0 \in SlotKinds(BaseVault), vault_1 \in SlotKinds(BaseVault) }

\* every value of the 8-bit status
StatusLedgers ==
    { LedgerOfP1(Data(PoolRecord("p1", status, 1, 0, 0, 1, 1)), Data(BaseConfig),
                 Data(MintV1), Data(MintV1), Data(BaseVault), Data(BaseVault)) :
        status \in U8 }

\* one side of a pool: <<vault balance, vault state, protocol fees, fund fees>>
SideAll == U64 \X {"Initialized", "Frozen"} \X U64 \X U64
SideBase == <<5, "Initialized", 1, 0>>
\* an ordinary side, a frozen vault, a balance below the fees, a fee sum past the word
SideSome == { SideBase, <<5, "Frozen", 1, 0>>, <<0, "Initialized", 1, 1>>,
              <<5, "Initialized", U64Max, 1>> }

SidesLedger(s0, s1) ==
    LedgerOfP1(Data(PoolRecord("p1", 0, s0[3], s0[4], s1[3], s1[4], 1)), Data(BaseConfig),
               Data(MintV1), Data(MintV1),
               Data(VaultRecord(s0[1], s0[2])), Data(VaultRecord(s1[1], s1[2])))

\* every balance, state and fee counters of one side against an ordinary other side,
\* and the combinations of the four kinds of side
ReserveLedgers ==
    { SidesLedger(s0, SideBase) : s0 \in SideAll } \cup
    { SidesLedger(SideBase, s1) : s1 \in SideAll } \cup
    { SidesLedger(s0, s1) : s0 \in SideSome, s1 \in SideSome }

\* every open time and every trade fee rate
TimeRateLedgers ==
    { LedgerOfP1(Data(PoolRecord("p1", 0, 1, 0, 0, 1, open_time)),
                 Data(ConfigRecord(rate, 1, 0)),
                 Data(MintV1), Data(MintV1), Data(BaseVault), Data(BaseVault)) :
        open_time \in U64, rate \in U64 }

FetchLedgers == KindLedgers \cup StatusLedgers \cup ReserveLedgers \cup TimeRateLedgers

InitFetch ==
    /\ ledger \in FetchLedgers
    /\ overflow_checks \in BOOLEAN
    /\ POOL_ADDRESS_MAP = EmptyMap
    /\ TOKEN_MINT_MAP = EmptyMap
    /\ pool_mutex = FreeMutex
    /\ mint_mutex = FreeMutex
    /\ fetch = [f \in Fetchers |-> FetchIdle]
    /\ quote = [q \in Quoters |-> QuoteIdle]
    /\ addresses = Pending
    /\ listener = Pending
    /\ returned = {}
    /\ written = {}

NextFetch ==
    \/ \E a \in {"p1", BadAddress} : FetchCall("f1", a)
    \/ FetchStep("f1")

SpecFetch == InitFetch /\ [][NextFetch]_vars

(* ---------------- one quote caller over many inputs ---------------- *)

\* the mint cache as fetch_pool_metadata calls for p1 leave it
QuoteCaches ==
    { EmptyMap,
      MapInsert(EmptyMap, "mA", MintV1),
      MapInsert(MapInsert(EmptyMap, "mA", MintV1), "mB", MintV1),
      MapInsert(MapInsert(EmptyMap, "mA", MintV2), "mB", MintV2) }

OptTimes == {None} \cup { Some(U64ToF64(t)) : t \in U64 }
OptFlags == {None, Some(TRUE), Some(FALSE)}
ReservePairs == { <<None, Some(U64ToF64(4))>>, <<Some(U64ToF64(0)), Some(U64ToF64(4))>>,
                  <<Some(U64ToF64(4)), Some(U64ToF64(6))>>,
                  <<Some(U64ToF64(1)), Some(U64ToF64(U64Max))>> }
MintPairs == { <<"mA", "mB">>, <<"mX", "mY">> }

QuoteMetadata ==
    { [ extra |-> [ is_trading |-> flag, open_time |-> time,
                    trade_fee_rate |-> Some(U64ToF64(1)),
                    protocol_fee_rate |-> Some(U64ToF64(1)),
                    fund_fee_rate |-> Some(U64ToF64(0)) ],
        base_reserve |-> r[1], quote_reserve |-> r[2],
        pool_address |-> "p1", base_mint |-> m[1], quote_mint |-> m[2] ] :
      flag \in OptFlags, time \in OptTimes, r \in ReservePairs, m \in MintPairs }

\* input amounts as f64 (in halves): negative, zero, fractional, whole, past u64
QuoteAmounts == {-2, -1, 0, 1, 3, 6, 10, 2 * U64Max, 2 * U64Max + 4}

\* ledger epochs: before and from the activation of MintV2's newer fee parameters
Epochs == {0, 1}
QuoteClocks == {ClockErr} \cup { ClockOk(t, e) : t \in I64, e \in Epochs }

InitQuote ==
    /\ ledger = BaseLedger
    /\ overflow_checks = FALSE
    /\ POOL_ADDRESS_MAP = EmptyMap
    /\ TOKEN_MINT_MAP \in QuoteCaches
    /\ pool_mutex = FreeMutex
    /\ mint_mutex = FreeMutex
    /\ fetch = [f \in Fetchers |-> FetchIdle]
    /\ quote = [q \in Quoters |-> QuoteIdle]
    /\ addresses = Pending
    /\ listener = Pending
    /\ returned = {}
    /\ written = {}

NextQuote ==
    \/ /\ quote["q1"].pc = "idle"
       /\ \E amount_in \in QuoteAmounts, clock \in QuoteClocks, metadata \in QuoteMetadata :
            QuoteCall("q1", amount_in, metadata, clock)
    \/ QuoteStep("q1")

SpecQuote == InitQuote /\ [][NextQuote]_vars

(* ---------------- the four operations of the adapter together ---------------- *)

\* the pool account p1 absent, undecodable or well-formed
AdapterLedgers ==
    { [BaseLedger EXCEPT !.pool["p1"] = slot] : slot \in SlotKinds(BasePool("p1")) }

InitAdapter ==
    /\ ledger \in AdapterLedgers
    /\ overflow_checks = FALSE
    /\ POOL_ADDRESS_MAP = EmptyMap
    /\ TOKEN_MINT_MAP = EmptyMap
    /\ pool_mutex = FreeMutex
    /\ mint_mutex = FreeMutex
    /\ fetch = [f \in Fetchers |-> FetchIdle]
    /\ quote = [q \in Quoters |-> QuoteIdle]
    /\ addresses = Pending
    /\ listener = Pending
    /\ returned = {}
    /\ written = {}

NextAdapter ==
    \/ \E f \in Fetchers, a \in Pools : FetchCall(f, a)
    \/ \E f \in Fetchers : FetchStep(f)
    \/ \E q \in Quoters, metadata \in returned \cup {ForeignMetadata} :
          QuoteCall(q, U64ToF64(3), metadata, ClockOk(1, 1))
    \/ \E q \in Quoters : QuoteStep(q)
    \/ \E q \in Quoters : QuoteReturn(q)
    \/ \E rpc_ok \in BOOLEAN : FetchPoolAddresses(rpc_ok)
    \/ ListenNewPoolAddresses
    \/ \E m \in ChangingMints, record \in MintVersions : LedgerUpdate(m, record)

SpecAdapter == InitAdapter /\ [][NextAdapter]_vars

(* ---------------- one fetch_pool_metadata call from different cache contents ---------------- *)

\* records cached by earlier calls, since changed on the ledger
StalePool(p) == PoolRecord(p, 4, 0, 0, 0, 0, 3)
PoolCaches ==
    { EmptyMap,
      MapInsert(EmptyMap, "p1", StalePool("p1")),
      MapInsert(MapInsert(EmptyMap, "p1", StalePool("p1")), "p2", StalePool("p2")) }
MintCaches ==
    { EmptyMap,
      MapInsert(EmptyMap, "mA", MintV2),
      MapInsert(MapInsert(MapInsert(EmptyMap, "mA", MintV2), "mB", MintV2), "mC", MintV2) }

\* one of the six accounts of p1 absent or undecodable, the others well-formed
BadSlotLedgers ==
    LET good == << Data(BasePool("p1")), Data(BaseConfig), Data(MintV1), Data(MintV1),
                   Data(BaseVault), Data(BaseVault) >>
    IN  { LedgerOfP1(s[1], s[2], s[3], s[4], s[5], s[6]) :
            s \in { [good EXCEPT ![i] = bad] : i \in 1..6, bad \in {Missing, Garbage} } }

CacheLedgers ==
    { SidesLedger(s0, s1) : s0 \in SideSome, s1 \in SideSome } \cup TimeRateLedgers
        \cup BadSlotLedgers

InitCaches ==
    /\ ledger \in CacheLedgers
    /\ overflow_checks \in BOOLEAN
    /\ POOL_ADDRESS_MAP \in PoolCaches
    /\ TOKEN_MINT_MAP \in MintCaches
    /\ pool_mutex = FreeMutex
    /\ mint_mutex = FreeMutex
    /\ fetch = [f \in Fetchers |-> FetchIdle]
    /\ quote = [q \in Quoters |-> QuoteIdle]
    /\ addresses = Pending
    /\ listener = Pending
    /\ returned = {}
    /\ written = {}

SpecCaches == InitCaches /\ [][NextFetch]_vars

(* ---------------- quotes on uncached mints among fetch calls ---------------- *)

\* metadata whose base mint gets cached by a fetch of p1 and whose quote mint never is
HalfForeignMetadata == [ForeignMetadata EXCEPT !.base_mint = "mA"]

PoisonMetadata == {ForeignMetadata, HalfForeignMetadata}

InitPoison ==
    /\ ledger = BaseLedger
    /\ overflow_checks = FALSE
    /\ POOL_ADDRESS_MAP = EmptyMap
    /\ TOKEN_MINT_MAP = EmptyMap
    /\ pool_mutex = FreeMutex
    /\ mint_mutex = FreeMutex
    /\ fetch = [f \in Fetchers |-> FetchIdle]
    /\ quote = [q \in Quoters |-> QuoteIdle]
    /\ addresses = Pending
    /\ listener = Pending
    /\ returned = {}
    /\ written = {}

NextPoison ==
    \/ \E f \in Fetchers, a \in Pools : FetchCall(f, a)
    \/ \E f \in Fetchers : FetchStep(f)
    \/ \E q \in Quoters, metadata \in returned \cup PoisonMetadata :
          QuoteCall(q, U64ToF64(3), metadata, ClockOk(1, 1))
    \/ \E q \in Quoters : QuoteStep(q)
    \/ \E q \in Quoters : QuoteReturn(q)

SpecPoison == InitPoison /\ [][NextPoison]_vars

(* ---------------- two fetch_pool_metadata calls on pools that share nothing ---------------- *)

\* pool p2 trading mC against mD: no mint in common with p1 (mA, mB)
DisjointPool == [BasePool("p2") EXCEPT !.token_0_mint = "mC", !.token_1_mint = "mD"]
DisjointLedger ==
    [BaseLedger EXCEPT !.pool["p2"] = Data(DisjointPool),
                       !.mint = [m \in Mints \cup {"mD"} |-> Data(MintV1)]]

InitDisjoint ==
    /\ ledger = DisjointLedger
    /\ overflow_checks = FALSE
    /\ POOL_ADDRESS_MAP = EmptyMap
    /\ TOKEN_MINT_MAP = EmptyMap
    /\ pool_mutex = FreeMutex
    /\ mint_mutex = FreeMutex
    /\ fetch = [f \in Fetchers |-> FetchIdle]
    /\ quote = [q \in Quoters |-> QuoteIdle]
    /\ addresses = Pending
    /\ listener = Pending
    /\ returned = {}
    /\ written = {}

NextDisjoint ==
    \/ FetchCall("f1", "p1")
    \/ FetchCall("f2", "p2")
    \/ \E f \in Fetchers : FetchStep(f)

SpecDisjoint == InitDisjoint /\ [][NextDisjoint]_vars

(* ======================= properties ======================= *)

(* C1: every PoolMetadata returned by fetch_pool_metadata has both its mints in  *)
(* the mint cache, when it is returned and in every later state; and no quote on *)
(* such metadata ends because a mint entry is missing.                           *)
C1_ReturnedMintsStayCached ==
    /\ \A md \in returned :
         /\ md.base_mint \in DOMAIN TOKEN_MINT_MAP
         /\ md.quote_mint \in DOMAIN TOKEN_MINT_MAP
    /\ \A q \in Quoters :
         quote[q].result \in {Panicked("fee_0"), Panicked("fee_1")}
            => quote[q].metadata \notin returned

\* a quote on returned metadata has read both legs while the other fetch call,
\* started on a rewritten ledger, is about to overwrite a mint
C1_Witness ==
    \E q \in Quoters, f \in Fetchers :
        /\ quote[q].pc = "done"
        /\ quote[q].metadata \in returned
        /\ IsSome(quote[q].mint_0) /\ IsSome(quote[q].mint_1)
        /\ fetch[f].pc \in {"insert_mint_0", "insert_mint_1"}

(* C2: every mint record in the cache, and every one a quote has read for either *)
(* leg, is one whole record that one fetch_pool_metadata call decoded from the   *)
(* ledger and inserted: never a mixture of two writers' records.                 *)
C2_MintRecordsWhole ==
    /\ \A w \in written : w[2] \in MintVersions
    /\ \A k \in DOMAIN TOKEN_MINT_MAP : <<k, TOKEN_MINT_MAP[k]>> \in written
    /\ \A q \in Quoters :
         /\ IsSome(quote[q].mint_0)
              => <<quote[q].metadata.base_mint, quote[q].mint_0.val>> \in written
         /\ IsSome(quote[q].mint_1)
              => <<quote[q].metadata.quote_mint, quote[q].mint_1.val>> \in written

\* two calls have written different records under the same key, and a quote has read
\* that key between the two writes of a third value pending in the other caller
C2_Witness ==
    \E q \in Quoters :
        /\ quote[q].pc = "lock_fee_1"
        /\ quote[q].metadata.quote_mint = "mB"
        /\ IsSome(quote[q].mint_0)
        /\ fetch["f2"].pc = "insert_mint_0"
        /\ fetch["f2"].pool_address = "p2"
        /\ fetch["f2"].token_0_mint.val # TOKEN_MINT_MAP["mB"]

(* ---- the call of f1 on pool p1 and the ledger it reads (SpecFetch: the ledger is fixed) ---- *)

F1 == fetch["f1"]
F1Ended == F1.pc = "done" /\ F1.pool_address = "p1"

SlotsOfP1 ==
    << ledger.pool["p1"], ledger.config["cfg"], ledger.mint["mA"], ledger.mint["mB"],
       ledger.vault["v1_0"], ledger.vault["v1_1"] >>
AllSlotsOk == \A i \in 1..6 : SlotsOfP1[i].st = "ok"

\* the first account, in reading order, that is not a well-formed record (0: none)
FirstBadSlot ==
    IF AllSlotsOk THEN 0 ELSE CHOOSE i \in 1..6 :
        /\ SlotsOfP1[i].st # "ok"
        /\ \A j \in 1..(i - 1) : SlotsOfP1[j].st = "ok"

\* side 0 / side 1 of p1, read off the ledger
Balance(side) == IF side = 0 THEN ledger.vault["v1_0"].val.amount
                 ELSE ledger.vault["v1_1"].val.amount
Frozen(side) == IF side = 0 THEN ledger.vault["v1_0"].val.state = "Frozen"
                ELSE ledger.vault["v1_1"].val.state = "Frozen"
ProtocolFees(side) == IF side = 0 THEN ledger.pool["p1"].val.protocol_fees_token_0
                      ELSE ledger.pool["p1"].val.protocol_fees_token_1
FundFees(side) == IF side = 0 THEN ledger.pool["p1"].val.fund_fees_token_0
                  ELSE ledger.pool["p1"].val.fund_fees_token_1
FeeSum(side) == ProtocolFees(side) + FundFees(side)
Published(side) == IF side = 0 THEN F1.result.md.base_reserve
                   ELSE F1.result.md.quote_reserve

(* C3 (as claimed): for a non-frozen vault the published reserve is the integer *)
(* B - P - F when B >= P + F (sum over the integers) and absent otherwise.      *)
C3_ReserveExactOrAbsent ==
    (F1Ended /\ F1.result.kind = "some") =>
        \A side \in {0, 1} :
            IF Balance(side) >= FeeSum(side)
            THEN Published(side) = Some(2 * (Balance(side) - FeeSum(side)))
            ELSE Published(side) = None

(* C4: a frozen token_0 or token_1 vault never comes with a PoolMetadata that   *)
(* carries a numeric reserve for that side.                                     *)
C4_FrozenNeverNumeric ==
    F1Ended =>
        \A side \in {0, 1} :
            (AllSlotsOk /\ Frozen(side)) =>
                ~(F1.result.kind = "some" /\ IsSome(Published(side)))

\* the call read all six accounts and ended on the frozen token_1 vault, whose
\* balance is the largest there is and whose fee counters are zero
C4_Witness ==
    /\ F1Ended /\ AllSlotsOk
    /\ F1.result = RetNone("vault_1_frozen")
    /\ Frozen(1) /\ Balance(1) = U64Max /\ FeeSum(1) = 0

ReadPlaces == {"get_pool", "get_config", "get_mint_0", "get_mint_1",
               "get_vault_0", "get_vault_1"}

C6_MalformedReturnsNone ==
    (F1Ended /\ FirstBadSlot \in {1, 2} /\ SlotsOfP1[FirstBadSlot].st = "garbage")
    => F1.result.kind = "none"

(* C10: the published is_trading flag is TRUE exactly when bit 2 (value 4) of    *)
(* the 8-bit status is clear, whatever the other bits are.                       *)
C10_IsTradingIsNotBit2 ==
    (F1Ended /\ F1.result.kind = "some") =>
        F1.result.md.extra.is_trading
            = Some((ledger.pool["p1"].val.status \div 4) % 2 = 0)

\* every bit but bit 2 is set, and the pool is published as trading
C10_Witness ==
    /\ F1Ended /\ F1.result.kind = "some"
    /\ ledger.pool["p1"].val.status = 251
    /\ F1.result.md.extra.is_trading = Some(TRUE)

(* ---- the call of q1 (SpecQuote) ---- *)

Q1 == quote["q1"]
Q1Ended == Q1.pc = "done"

(* C7: for every input amount <= 0 and every metadata, in every cache state,     *)
(* quote returns exactly 0 at once: no clock reading, no lock taken, no entry of *)
(* either cache read.                                                            *)
C7_NonPositiveAmountQuotesZero ==
    (Q1.pc # "idle" /\ Q1.amount_in <= 0) =>
        /\ Q1Ended /\ Q1.result = Value(0)
        /\ ~Q1.clock_read
        /\ IsNone(Q1.mint_0) /\ IsNone(Q1.mint_1)
        /\ mint_mutex = FreeMutex /\ pool_mutex = FreeMutex

\* a negative amount on a trading pool whose mints are not cached, cache empty
C7_Witness ==
    /\ Q1Ended /\ Q1.amount_in < 0 /\ Q1.result = Value(0)
    /\ Q1.metadata.extra.is_trading = Some(TRUE)
    /\ Q1.metadata.base_mint = "mX" /\ TOKEN_MINT_MAP = EmptyMap

(* C8 (as claimed): for every metadata whose is_trading flag is false, quote     *)
(* returns 0 for every amount, reserves, fee rates and cache state.              *)
C8_NotTradingQuotesZero ==
    (Q1Ended /\ Q1.metadata.extra.is_trading = Some(FALSE)) => Q1.result = Value(0)

\* metadata.open_time as the f64 the caller passes (in halves), absent read as 0
OpenTimeHalves == UnwrapOr(Q1.metadata.extra.open_time, 0)

(* C9 (as claimed): when open_time is later than the current time quote read,    *)
(* quote returns 0; a positive quote comes only with current time >= open_time   *)
(* and is_trading true.                                                          *)
C9_BeforeOpenTimeQuotesZero ==
    Q1Ended =>
        /\ (Q1.clock_read /\ Q1.clock.ok /\ OpenTimeHalves > 2 * Q1.clock.unix_timestamp)
              => Q1.result = Value(0)
        /\ (Q1.result.kind = "value" /\ Q1.result.val > 0) =>
              /\ Q1.clock_read /\ Q1.clock.ok
              /\ 2 * Q1.clock.unix_timestamp >= OpenTimeHalves
              /\ Q1.metadata.extra.is_trading = Some(TRUE)

(* ---- the two legs of a quote, recomputed from the call's inputs ---- *)

\* the fee a mint record charges on an amount at an epoch (0 without the extension,
\* 0 when the calculation fails)
LegFee(mint, epoch, amount) ==
    IF IsNone(mint.transfer_fee_config) THEN 0
    ELSE LET fee == calculate_epoch_fee(mint.transfer_fee_config.val, epoch, amount)
         IN  IF IsSome(fee) THEN fee.val ELSE 0

\* the curve run on a net input with the reserves and rates of Q1's metadata
CurveOf(net_in) ==
    swap_base_input(net_in,
        F64ToU128(UnwrapOr(Q1.metadata.base_reserve, 0)),
        F64ToU128(UnwrapOr(Q1.metadata.quote_reserve, 0)),
        F64ToU64(UnwrapOr(Q1.metadata.extra.trade_fee_rate, 0)),
        F64ToU64(UnwrapOr(Q1.metadata.extra.protocol_fee_rate, 0)),
        F64ToU64(UnwrapOr(Q1.metadata.extra.fund_fee_rate, 0)))

Q1Epoch == I64ToU64(Q1.clock.unix_timestamp)
\* net input: the given whole amount less the input-leg fee of the cached base mint
NetIn(whole_in) ==
    Max(0, whole_in - LegFee(TOKEN_MINT_MAP[Q1.metadata.base_mint], Q1Epoch, whole_in))
\* net output: the curve's output less the output-leg fee of the cached quote mint
NetOut(whole_in) ==
    LET out == CurveOf(NetIn(whole_in)).val.destination_amount_swapped
    IN  Max(0, out - LegFee(TOKEN_MINT_MAP[Q1.metadata.quote_mint], Q1Epoch, out))

\* the call went through both legs and returned a number
Q1BothLegs == Q1Ended /\ Q1.result.kind = "value" /\ IsSome(Q1.mint_1)

(* C11 (as claimed): the returned value is the curve output for the truncated    *)
(* input net of the input-leg fee, less the output-leg fee: that integer itself. *)
C11_QuoteIsNetOutput ==
    Q1BothLegs => Q1.result.val = 2 * NetOut(F64Trunc(Q1.amount_in))

(* C11 (amended): the fees are charged on the two legs independently, the input  *)
(* being the amount truncated and saturated to u64, and the returned value is    *)
(* the net output converted to f64 (rounded to the nearest f64).                 *)
C11_QuoteIsNetOutputAsF64 ==
    Q1BothLegs =>
        /\ Q1.mint_0 = Some(TOKEN_MINT_MAP[Q1.metadata.base_mint])
        /\ Q1.mint_1 = Some(TOKEN_MINT_MAP[Q1.metadata.quote_mint])
        /\ Q1.result.val = U64ToF64(NetOut(F64ToU64(Q1.amount_in)))

\* both legs charged a fee and something is left
C11_Witness ==
    /\ Q1BothLegs /\ Q1.result.val > 0
    /\ Q1.token_0_transfer_fee > 0
    /\ Q1.result.val < U64ToF64(Q1.amount_out)

\* the call has computed the input-leg fee
Q1PastFee0 == IsSome(Q1.mint_0)

(* C12: once the input-leg fee is known, a zero net input or a curve step that   *)
(* returns None ends the call at once with 0: the quote-mint entry is not read   *)
(* and no lock is held.                                                          *)
C12_ZeroNetOrNoCurveQuotesZero ==
    (Q1PastFee0 /\ (NetIn(F64ToU64(Q1.amount_in)) = 0
                    \/ IsNone(CurveOf(NetIn(F64ToU64(Q1.amount_in))))))
    => /\ Q1Ended /\ Q1.result = Value(0)
       /\ IsNone(Q1.mint_1)
       /\ mint_mutex = FreeMutex

\* the input-leg fee eats the whole input, on a pool whose curve gives something for
\* a larger input
C12_Witness ==
    /\ Q1Ended /\ Q1PastFee0 /\ Q1.result = Value(0)
    /\ Q1.token_0_transfer_fee > 0
    /\ NetIn(F64ToU64(Q1.amount_in)) = 0
    /\ IsSome(CurveOf(U64Max))

\* the current ledger epoch, as the clock Q1 read gives it
LedgerEpoch == Q1.clock.epoch

(* C13 (as claimed): each leg is charged the mint's fee for the ledger epoch in  *)
(* effect at quote time (older parameters below the activation epoch of the      *)
(* newer ones, newer from it on, capped at the maximum).                         *)
C13_FeeOfLedgerEpoch ==
    /\ Q1PastFee0 =>
          Q1.token_0_transfer_fee
              = LegFee(TOKEN_MINT_MAP[Q1.metadata.base_mint], LedgerEpoch,
                       F64ToU64(Q1.amount_in))
    /\ Q1BothLegs =>
          Q1.result.val
              = U64ToF64(Max(0, Q1.amount_out
                    - LegFee(TOKEN_MINT_MAP[Q1.metadata.quote_mint], LedgerEpoch,
                             Q1.amount_out)))

(* C14: in every step of every interleaving of the four operations the key sets  *)
(* of the mint cache and of the pool cache only grow: no key is ever removed.    *)
C14_CachesNeverShrink ==
    [][ /\ DOMAIN TOKEN_MINT_MAP \subseteq DOMAIN TOKEN_MINT_MAP'
        /\ DOMAIN POOL_ADDRESS_MAP \subseteq DOMAIN POOL_ADDRESS_MAP' ]_vars

\* both caches are filled, the entry of mB has been replaced by a newer record,
\* and the scan and the listener have run
C14_Witness ==
    /\ DOMAIN POOL_ADDRESS_MAP = Pools /\ DOMAIN TOKEN_MINT_MAP = Mints
    /\ <<"mB", MintV1>> \in written /\ TOKEN_MINT_MAP["mB"] = MintV2
    /\ addresses # Pending /\ listener # Pending
    /\ \E q \in Quoters : quote[q].pc = "done"

\* the records of pool p1 on the ledger
LedgerPool == ledger.pool["p1"].val
LedgerConfig == ledger.config["cfg"].val

\* the metadata of p1 as the ledger alone determines it, given the two reserves
LedgerMetadata(base_reserve, quote_reserve) ==
    [ extra |-> [ is_trading |-> Some((LedgerPool.status \div 4) % 2 = 0),
                  open_time |-> Some(U64ToF64(LedgerPool.open_time)),
                  trade_fee_rate |-> Some(U64ToF64(LedgerConfig.trade_fee_rate)),
                  protocol_fee_rate |-> Some(U64ToF64(LedgerConfig.protocol_fee_rate)),
                  fund_fee_rate |-> Some(U64ToF64(LedgerConfig.fund_fee_rate)) ],
      base_reserve |-> base_reserve, quote_reserve |-> quote_reserve,
      pool_address |-> "p1", base_mint |-> "mA", quote_mint |-> "mB" ]

\* a side's published reserve as the ledger alone determines it (u64 fee sum)
LedgerReserve(side) ==
    IF Balance(side) >= (FeeSum(side) % Pow2(WordBits))
    THEN Some(U64ToF64(Balance(side) - (FeeSum(side) % Pow2(WordBits))))
    ELSE None

(* C15: whatever the caches hold when fetch_pool_metadata starts, every record   *)
(* it works with is the one it read from the ledger, and its result is the one   *)
(* the ledger determines: equal ledgers give equal reads and equal results.      *)
C15_ResultFromLedgerOnly ==
    /\ IsSome(F1.pool_state) => F1.pool_state.val = LedgerPool
    /\ IsSome(F1.amm_config) => F1.amm_config.val = LedgerConfig
    /\ IsSome(F1.token_0_mint) => F1.token_0_mint.val = ledger.mint["mA"].val
    /\ IsSome(F1.token_1_mint) => F1.token_1_mint.val = ledger.mint["mB"].val
    /\ IsSome(F1.token_0_vault) => F1.token_0_vault.val = ledger.vault["v1_0"].val
    /\ IsSome(F1.token_1_vault) => F1.token_1_vault.val = ledger.vault["v1_1"].val
    /\ (F1Ended /\ F1.result.kind = "some") =>
          F1.result.md = LedgerMetadata(LedgerReserve(0), LedgerReserve(1))
    /\ (F1Ended /\ F1.result.at \in {"vault_0_frozen", "vault_1_frozen"}) =>
          (Frozen(0) \/ Frozen(1))

\* the call returned metadata of a trading pool although the caches it started
\* from held a swap-disabled record of p1 (and of p2, still there) and other mints
C15_Witness ==
    /\ F1Ended /\ F1.result.kind = "some"
    /\ F1.result.md.extra.is_trading = Some(TRUE)
    /\ "p2" \in DOMAIN POOL_ADDRESS_MAP /\ POOL_ADDRESS_MAP["p2"] = StalePool("p2")
    /\ "mC" \in DOMAIN TOKEN_MINT_MAP
    /\ TOKEN_MINT_MAP["mA"] = MintV1

\* the mutex a caller is about to take, if it is at a lock
WantedMutex(f) ==
    IF fetch[f].pc = "lock_pool_map" THEN "pool"
    ELSE IF fetch[f].pc \in {"lock_mint_0", "lock_mint_1"} THEN "mint"
    ELSE "none"
HolderOf(m) == IF m = "pool" THEN pool_mutex.holder ELSE mint_mutex.holder
\* a caller waits: it is at a lock whose mutex another caller holds
Waiting(f) == WantedMutex(f) # "none" /\ HolderOf(WantedMutex(f)) \notin {NoHolder, f}

(* C16 (as claimed): two calls on pools with different addresses and four        *)
(* pairwise different mints never wait on each other.                            *)
C16_DisjointNeverWait == \A f \in Fetchers : ~Waiting(f)

(* C16 (amended): a call waits only for the other call's single insert into the  *)
(* same map, whatever the keys; the holder holds nothing else and waits for      *)
(* nothing, so the wait ends with the holder's next step.                        *)
C16_WaitOnlyForOneInsert ==
    \A f \in Fetchers : Waiting(f) =>
        \E g \in Fetchers \ {f} :
            /\ HolderOf(WantedMutex(f)) = g
            /\ fetch[g].pc \in (IF WantedMutex(f) = "pool" THEN {"insert_pool"}
                                ELSE {"insert_mint_0", "insert_mint_1"})
            /\ ~Waiting(g)
            /\ (WantedMutex(f) = "pool" => mint_mutex.holder # g)
            /\ (WantedMutex(f) = "mint" => pool_mutex.holder # g)

\* f2 is about to cache mC and waits while f1 inserts mB
C16_Witness ==
    /\ fetch["f2"].pc = "lock_mint_0" /\ fetch["f2"].pool_state.val.token_0_mint = "mC"
    /\ fetch["f1"].pc = "insert_mint_1" /\ mint_mutex.holder = "f1"
    /\ Waiting("f2")

\* a reserve of Q1's metadata is absent or zero
NoReserve ==
    \/ UnwrapOr(Q1.metadata.base_reserve, 0) = 0
    \/ UnwrapOr(Q1.metadata.quote_reserve, 0) = 0

(* C17 (as claimed): the curve returns None when a reserve is 0, and quote       *)
(* returns 0 for every metadata whose base or quote reserve is absent or zero    *)
(* (stated for metadata whose two mints are cached).                             *)
C17_NoReserveQuotesZero ==
    /\ \A net_in \in U64 : NoReserve => IsNone(CurveOf(net_in))
    /\ (Q1Ended /\ NoReserve
          /\ Q1.metadata.base_mint \in DOMAIN TOKEN_MINT_MAP
          /\ Q1.metadata.quote_mint \in DOMAIN TOKEN_MINT_MAP)
       => Q1.result = Value(0)

\* the pool-sized accounts of the program that exist, in scan order
ScannedPools == SelectSeq(<< "p2", "p1" >>, LAMBDA a : ledger.pool[a].st # "missing")

(* C18: fetch_pool_addresses returns a sequence, never an error or a panic: the  *)
(* empty one when the scan fails at the transport, otherwise the address of each *)
(* account of length PoolState::LEN the scan yields, in scan order; and the step *)
(* leaves both caches and their mutexes as they were.                            *)
C18_ScanResultAndFrame ==
    /\ [](addresses # Pending =>
            /\ addresses.kind = "addresses"
            /\ addresses.at = "scan_err" => addresses.val = << >>
            /\ addresses.at = "scan_ok" => addresses.val = ScannedPools)
    /\ [][addresses' # addresses =>
            /\ POOL_ADDRESS_MAP' = POOL_ADDRESS_MAP /\ TOKEN_MINT_MAP' = TOKEN_MINT_MAP
            /\ pool_mutex' = pool_mutex /\ mint_mutex' = mint_mutex]_vars

\* the scan succeeded on a ledger whose p1 account has a pool's length but does not
\* decode, while the pool cache already holds an entry
C18_Witness ==
    /\ addresses = Addresses(<< "p2", "p1" >>, "scan_ok")
    /\ ledger.pool["p1"].st = "garbage"
    /\ DOMAIN POOL_ADDRESS_MAP # {}

\* the mint record a step of quote read, if it read one
MintReadBy(before, after) ==
    CASE after.mint_0 # before.mint_0 /\ IsSome(after.mint_0) ->
            [read |-> TRUE, key |-> before.metadata.base_mint, val |-> after.mint_0.val]
      [] after.mint_1 # before.mint_1 /\ IsSome(after.mint_1) ->
            [read |-> TRUE, key |-> before.metadata.quote_mint, val |-> after.mint_1.val]
      [] OTHER -> [read |-> FALSE, key |-> "", val |-> MintV1]

(* C19: quote is read-only on the shared state. Every step of a quote call, the  *)
(* early returns of 0 and the panics included, leaves the ledger, the pool cache *)
(* and its mutex, the mint cache and every fetch call as they were; the one mint *)
(* record a step reads is the entry the mint cache holds under the mint the      *)
(* metadata names for that leg, whatever the ledger holds for that mint.         *)
C19_QuoteReadsCacheOnly ==
    [][\A q \in Quoters : quote'[q] # quote[q] =>
          /\ ledger' = ledger
          /\ POOL_ADDRESS_MAP' = POOL_ADDRESS_MAP /\ pool_mutex' = pool_mutex
          /\ TOKEN_MINT_MAP' = TOKEN_MINT_MAP
          /\ fetch' = fetch /\ returned' = returned /\ written' = written
          /\ LET r == MintReadBy(quote[q], quote'[q])
             IN  r.read => /\ r.key \in DOMAIN TOKEN_MINT_MAP
                           /\ r.val = TOKEN_MINT_MAP[r.key]]_vars

\* a quote has priced its output leg with the cached record of a mint whose ledger
\* account has been rewritten since
C19_Witness ==
    /\ Q1Ended /\ Q1.result.kind = "value" /\ IsSome(Q1.mint_1)
    /\ ledger.mint[Q1.metadata.quote_mint] # Data(Q1.mint_1.val)
    /\ TOKEN_MINT_MAP[Q1.metadata.quote_mint] = Q1.mint_1.val

\* a quote has returned 0 before reading the clock while both caches hold entries
C19_WitnessEarly ==
    /\ Q1Ended /\ ~Q1.clock_read /\ Q1.result = Value(0)
    /\ DOMAIN TOKEN_MINT_MAP # {} /\ DOMAIN POOL_ADDRESS_MAP # {}

\* the caches of a single call on p1, against the caches it started from
PoolCacheUntouched == POOL_ADDRESS_MAP \in PoolCaches
PoolEntryWritten ==
    \E c \in PoolCaches : POOL_ADDRESS_MAP = MapInsert(c, "p1", LedgerPool)
MintCacheUntouched == TOKEN_MINT_MAP \in MintCaches /\ written = {}
MintEntriesWritten ==
    \E c \in MintCaches :
        TOKEN_MINT_MAP = MapInsert(MapInsert(c, "mA", ledger.mint["mA"].val),
                                   "mB", ledger.mint["mB"].val)

(* C20: fetch_pool_metadata writes the pool entry after the pool account decoded *)
(* and before the fee-config is fetched, and both mint entries after both mints  *)
(* decoded and before a vault is fetched. A call that returns None at the pool   *)
(* read has changed neither cache; one that returns None at the fee-config read  *)
(* or a mint read has overwritten the pool entry and nothing else; one that      *)
(* returns None at a vault read or on a frozen vault has overwritten the pool    *)
(* entry and both mint entries.                                                  *)
C20_WritesBeforeLaterReads ==
    /\ [](/\ F1.pc = "get_pool" => PoolCacheUntouched /\ MintCacheUntouched
          /\ F1.pc \in {"get_config", "get_mint_0", "get_mint_1"} =>
                PoolEntryWritten /\ MintCacheUntouched
          /\ F1.pc \in {"get_vault_0", "get_vault_1", "assemble"} =>
                PoolEntryWritten /\ MintEntriesWritten
          /\ (F1Ended /\ F1.result = RetNone("get_pool")) =>
                PoolCacheUntouched /\ MintCacheUntouched
          /\ (F1Ended /\ F1.result \in {RetNone("get_config"), RetNone("get_mint_0"),
                                        RetNone("get_mint_1")}) =>
                PoolEntryWritten /\ MintCacheUntouched
          /\ (F1Ended /\ F1.result \in {RetNone("get_vault_0"), RetNone("get_vault_1"),
                                        RetNone("vault_0_frozen"),
                                        RetNone("vault_1_frozen")}) =>
                PoolEntryWritten /\ MintEntriesWritten)
    /\ [][/\ POOL_ADDRESS_MAP' # POOL_ADDRESS_MAP =>
                IsSome(F1.pool_state) /\ IsNone(F1.amm_config)
          /\ TOKEN_MINT_MAP' # TOKEN_MINT_MAP =>
                /\ IsSome(F1.token_0_mint) /\ IsSome(F1.token_1_mint)
                /\ IsNone(F1.token_0_vault)]_vars

\* the fee-config account does not exist: the call returned None, the stale pool
\* entry it started with is overwritten and the stale mint entries are as they were
C20_Witness ==
    /\ F1Ended /\ F1.result = RetNone("get_config")
    /\ ledger.config["cfg"] = Missing
    /\ DOMAIN POOL_ADDRESS_MAP = {"p1", "p2"} /\ "mA" \in DOMAIN TOKEN_MINT_MAP
    /\ POOL_ADDRESS_MAP["p1"] = LedgerPool /\ POOL_ADDRESS_MAP["p2"] = StalePool("p2")
    /\ TOKEN_MINT_MAP["mA"] = MintV2 /\ ledger.mint["mA"] = Data(MintV1)

\* a vault does not decode: the call returned None with all three entries overwritten
C20_WitnessVault ==
    /\ F1Ended /\ F1.result = RetNone("get_vault_1")
    /\ ledger.vault["v1_1"] = Garbage
    /\ PoolEntryWritten /\ MintEntriesWritten /\ ~MintCacheUntouched

\* the mint a quote call at a lookup is about to look up
LookupKey(me) ==
    IF me.pc = "fee_0" THEN me.metadata.base_mint ELSE me.metadata.quote_mint

(* C21: a quote call that reaches a mint lookup (base mint, or quote mint after   *)
(* the curve) for a mint with no cache entry panics while it holds the mint-cache *)
(* guard, and the mutex is poisoned. Once poisoned it stays poisoned and nobody   *)
(* holds it; every quote call that comes to a mint lock and every                 *)
(* fetch_pool_metadata call that comes to a mint insert panics there, whatever    *)
(* its pool and mints, and the mint cache never changes again.                    *)
C21_UncachedMintPoisonsForGood ==
    /\ [](mint_mutex.poisoned => mint_mutex.holder = NoHolder)
    /\ [][/\ \A q \in Quoters :
                (/\ quote[q].pc \in {"fee_0", "fee_1"} /\ quote'[q] # quote[q]
                 /\ LookupKey(quote[q]) \notin DOMAIN TOKEN_MINT_MAP)
                => /\ mint_mutex.holder = q /\ ~mint_mutex.poisoned
                   /\ quote'[q].pc = "done" /\ quote'[q].result.kind = "panic"
                   /\ mint_mutex'.poisoned
          /\ mint_mutex.poisoned =>
                /\ mint_mutex'.poisoned
                /\ TOKEN_MINT_MAP' = TOKEN_MINT_MAP
                /\ \A q \in Quoters :
                      (quote[q].pc \in {"lock_fee_0", "lock_fee_1"} /\ quote'[q] # quote[q])
                      => quote'[q].pc = "done" /\ quote'[q].result.kind = "panic"
                /\ \A f \in Fetchers :
                      (fetch[f].pc \in {"lock_mint_0", "lock_mint_1"} /\ fetch'[f] # fetch[f])
                      => fetch'[f].pc = "done" /\ fetch'[f].result.kind = "panic"]_vars

\* a quote failed on the uncached quote mint after pricing the base leg from the
\* cache; since then a fetch of the other pool has failed at its first mint insert
C21_Witness ==
    /\ mint_mutex.poisoned
    /\ Q1Ended /\ Q1.result = Panicked("fee_1") /\ Q1.metadata = HalfForeignMetadata
    /\ \E f \in Fetchers :
          /\ fetch[f].pc = "done" /\ fetch[f].pool_address = "p2"
          /\ fetch[f].result = Panicked("lock_mint_0")

\* after the poisoning a quote on cached mints has failed at its first lock
C21_WitnessQuote ==
    /\ mint_mutex.poisoned
    /\ Q1Ended /\ Q1.result = Panicked("lock_fee_0")
    /\ Q1.metadata.base_mint \in DOMAIN TOKEN_MINT_MAP
    /\ Q1.metadata.quote_mint \in DOMAIN TOKEN_MINT_MAP

\* the callers of the adapter and where each one stands
Callers == Fetchers \cup Quoters
PcOf(c) == IF c \in Fetchers THEN fetch[c].pc ELSE quote[c].pc
InLedgerRead(c) == c \in Fetchers /\ PcOf(c) \in ReadPlaces
AtPoolLock(c) == c \in Fetchers /\ PcOf(c) = "lock_pool_map"
AtMintLock(c) ==
    PcOf(c) \in (IF c \in Fetchers THEN {"lock_mint_0", "lock_mint_1"}
                 ELSE {"lock_fee_0", "lock_fee_1"})
\* the holder of a guard can take the step that ends the guard's scope
CanRelease(c) ==
    IF c \in Fetchers
    THEN ENABLED (FetchInsertPool(c) \/ FetchInsertMint0(c) \/ FetchInsertMint1(c))
    ELSE ENABLED (QuoteFee0(c) \/ QuoteFee1(c))

\* a caller at a mint lock can take it
CanTakeMintLock(c) ==
    IF c \in Fetchers THEN ENABLED (FetchLockMint0(c) \/ FetchLockMint1(c))
    ELSE ENABLED (QuoteLockFee0(c) \/ QuoteLockFee1(c))

(* C22: in every reachable state no caller holds both cache locks, and a caller  *)
(* that holds one is at the insert or the lookup the guard was taken for: never   *)
(* in a ledger read and never waiting for a lock. So the calls cannot deadlock:   *)
(* whoever waits for a lock waits for a holder that can take its releasing step,  *)
(* and a lock nobody holds can be taken, however long the ledger reads of other   *)
(* calls take.                                                                    *)
C22_NoLockAcrossReadOrLock ==
    \A c \in Callers :
        /\ ~(pool_mutex.holder = c /\ mint_mutex.holder = c)
        /\ pool_mutex.holder = c => PcOf(c) = "insert_pool"
        /\ mint_mutex.holder = c =>
              PcOf(c) \in (IF c \in Fetchers THEN {"insert_mint_0", "insert_mint_1"}
                           ELSE {"fee_0", "fee_1"})
        /\ InLedgerRead(c) => pool_mutex.holder # c /\ mint_mutex.holder # c
        /\ AtPoolLock(c) =>
              \/ ENABLED FetchLockPoolMap(c)
              \/ /\ pool_mutex.holder \in Callers \ {c}
                 /\ ~InLedgerRead(pool_mutex.holder) /\ CanRelease(pool_mutex.holder)
        /\ AtMintLock(c) =>
              \/ CanTakeMintLock(c)
              \/ /\ mint_mutex.holder \in Callers \ {c}
                 /\ ~InLedgerRead(mint_mutex.holder) /\ CanRelease(mint_mutex.holder)

\* one fetch call is in a ledger read while the other holds the pool-cache guard and
\* a quote call holds the mint-cache guard
C22_Witness ==
    /\ InLedgerRead("f1")
    /\ pool_mutex.holder = "f2"
    /\ mint_mutex.holder = "q1"

\* a quote call waits for the mint-cache guard, held by a fetch call at its insert,
\* while the other fetch call is in a ledger read
C22_WitnessWaiting ==
    /\ AtMintLock("q1") /\ mint_mutex.holder \in Fetchers
    /\ \E f \in Fetchers : InLedgerRead(f) /\ PcOf(f) = "get_vault_0"

====
